---- MODULE Spec2Model ----
(***************************************************************************)
(* The experiment organizer of hydra-proj/src/experiment_tracker.py: the   *)
(* index builder, the query layer, the retention cleanup and the command   *)
(* line.  The root directory is the state; every method and every command  *)
(* is one action.                                                          *)
(*                                                                         *)
(* Text is a sequence of one-character strings, so that prefixes, ordering *)
(* and matching are computed.  Accuracies are in hundredths (95 is 0.95),  *)
(* ages in days.                                                           *)
(***************************************************************************)
EXTENDS Integers, Sequences, FiniteSets, TLC

VARIABLES
    fs,         \* the directories under base_dir: name -> [age, info, results, subs]
    listing,    \* the order in which the file system lists directory entries
    indexFile,  \* base_dir/experiment_index.csv
    shortcuts,  \* the links in base_dir/shortcuts
    out,        \* what the last operation returned, printed or raised
    last,       \* the latest run of create_experiment_index
    prev        \* the run of create_experiment_index before the latest

vars == <<fs, listing, indexFile, shortcuts, out, last, prev>>

(********************************* bounds **********************************)
\* job_ subdirectories a sweep parent may hold
MaxJobs == 2
\* the largest top_n asked of find_best_experiments
MaxTopN == 3

(********************************** text ***********************************)
\* the characters of the names used, in code point order
CodePoints ==
    << ".", "/", "0", "1", "2", "3", "5", "8", "9", "A", "B", "P", "_",
       "a", "b", "c", "e", "g", "j", "l", "o", "p", "r", "s", "t", "u", "w",
       "x", "z" >>

Ord(c) == CHOOSE i \in 1..Len(CodePoints) : CodePoints[i] = c

Lower(c) ==
    CASE c = "A" -> "a"
      [] c = "B" -> "b"
      [] c = "P" -> "p"
      [] OTHER -> c

LowerText(s) == [i \in 1..Len(s) |-> Lower(s[i])]

\* Python's order on str: by code point, a proper prefix first
RECURSIVE TextLess(_, _)
TextLess(a, b) ==
    IF a = <<>> THEN b # <<>>
    ELSE IF b = <<>> THEN FALSE
    ELSE IF a[1] # b[1] THEN Ord(a[1]) < Ord(b[1])
    ELSE TextLess(Tail(a), Tail(b))

StartsWith(s, p) == Len(s) >= Len(p) /\ SubSeq(s, 1, Len(p)) = p

Digits == <<"0", "1", "2", "3", "4", "5", "6", "7", "8", "9">>

IsDigit(c) == \E i \in 1..10 : Digits[i] = c

DigitValue(c) == (CHOOSE i \in 1..10 : Digits[i] = c) - 1

RECURSIVE FormatNat(_)
FormatNat(n) ==
    IF n < 10 THEN <<Digits[n + 1]>>
    ELSE Append(FormatNat(n \div 10), Digits[(n % 10) + 1])

RECURSIVE ParseNat(_)
ParseNat(s) ==
    IF Len(s) = 1 THEN DigitValue(s[1])
    ELSE 10 * ParseNat(SubSeq(s, 1, Len(s) - 1)) + DigitValue(s[Len(s)])

IsNumericText(s) == s # <<>> /\ \A i \in 1..Len(s) : IsDigit(s[i])

(********************************* values **********************************)
\* a JSON or table value: a string, a number, or pandas' missing value
Str(s) == [s |-> s]
Num(n) == [n |-> n]
NaN == [nan |-> TRUE]
IsStr(v) == DOMAIN v = {"s"}
IsNum(v) == DOMAIN v = {"n"}
IsNaN(v) == DOMAIN v = {"nan"}

\* a Python dict: a sequence of <<key, value>> in insertion order
HasKey(d, k) == \E i \in 1..Len(d) : d[i][1] = k
Get(d, k) == d[CHOOSE i \in 1..Len(d) : d[i][1] = k][2]
GetOr(d, k, default) == IF HasKey(d, k) THEN Get(d, k) ELSE default
Put(d, k, v) ==
    IF HasKey(d, k)
    THEN [i \in 1..Len(d) |-> IF d[i][1] = k THEN <<k, v>> ELSE d[i]]
    ELSE Append(d, <<k, v>>)

RECURSIVE Update(_, _)
Update(d, e) ==
    IF e = <<>> THEN d ELSE Update(Put(d, e[1][1], e[1][2]), Tail(e))

(******************************* file system *******************************)
BaseDir == <<"o", "u", "t", "p", "u", "t", "s">>
ExpA == <<"e", "x", "p", "A">>
SweepB == <<"s", "w", "e", "e", "p", "B">>
Sweep12 == <<"1", "2">>
Job0 == <<"j", "o", "b", "_", "0">>
Job1 == <<"j", "o", "b", "_", "1">>
Job10 == <<"j", "o", "b", "_", "1", "0">>
Job2 == <<"j", "o", "b", "_", "2">>
Logs == <<"l", "o", "g", "s">>
JobPrefix == <<"j", "o", "b", "_">>

PathOf(parent, name) == parent \o <<"/">> \o name

\* a document on disk: absent, malformed JSON, or well formed
NoDoc == [st |-> "absent", acc |-> 0]
BadDoc == [st |-> "bad", acc |-> 0]
OkDoc(a) == [st |-> "ok", acc |-> a]

\* experiment_info.json as the training entry point writes it
InfoDoc(name) ==
    << <<"name", Str(name)>>,
       <<"model", Str(<<"r", "1", "8">>)>>,
       <<"dataset", Str(<<"c", "1", "0">>)>>,
       <<"lr", Num(1)>>,
       <<"batch_size", Num(32)>>,
       <<"timestamp", Str(<<"t", "0">>)>> >>

\* results.json: acc 0 stands for a document without best_accuracy
ResultsDoc(doc) ==
    IF doc.acc = 0 THEN <<>> ELSE << <<"best_accuracy", Num(doc.acc)>> >>

\* Path.iterdir: the entries of a directory in the file system's order
ListDir(names) == SelectSeq(listing, LAMBDA n : n \in names)

IndexName ==
    << "e", "x", "p", "e", "r", "i", "m", "e", "n", "t", "_", "i", "n", "d",
       "e", "x", ".", "c", "s", "v" >>

NoSubs == [n \in {} |-> 0]

\* Path.is_dir for an entry of base_dir
IsDir(name) == name \in DOMAIN fs

\* base_dir.iterdir(): the directories and, once written, the index file
RootEntries(file) ==
    ListDir(DOMAIN fs \cup (IF file.exists THEN {IndexName} ELSE {}))

(****************************** index builder ******************************)
NoExc == ""

\* _extract_experiment_info: called only when info_file exists
ExtractExperimentInfo(path, name, d) ==
    IF d.info = "bad" THEN [exc |-> "JSONDecodeError", rec |-> <<>>]
    ELSE IF d.results.st = "bad" THEN [exc |-> "JSONDecodeError", rec |-> <<>>]
    ELSE LET info == InfoDoc(name)
             merged == IF d.results.st = "ok"
                       THEN Update(info, ResultsDoc(d.results))
                       ELSE info
         IN  [exc |-> NoExc,
              rec |-> Put(Put(merged, "folder_name", Str(name)),
                          "full_path", Str(path))]

RECURSIVE InsertSorted(_, _)
InsertSorted(x, s) ==
    IF s = <<>> THEN <<x>>
    ELSE IF TextLess(x, s[1]) THEN <<x>> \o s
    ELSE <<s[1]>> \o InsertSorted(x, Tail(s))

\* a build that forgets to sort: the jobs stay in listing order
Unsorted(s) == s

\* sorted(job_dirs): paths of one parent, ordered by name
RECURSIVE Sorted(_)
Sorted(s) ==
    IF s = <<>> THEN <<>>
    ELSE InsertSorted(s[Len(s)], Sorted(SubSeq(s, 1, Len(s) - 1)))

\* the job_ subdirectories of a directory, as iterdir lists them
JobDirs(d) ==
    SelectSeq(ListDir(DOMAIN d.subs), LAMBDA n : StartsWith(n, JobPrefix))

\* the loop over sorted(job_dirs), appending to the experiments found so far
RECURSIVE SweepRecords(_, _, _, _)
SweepRecords(parent, d, jobs, found) ==
    IF jobs = <<>> THEN [exc |-> NoExc, exps |-> found]
    ELSE IF d.subs[jobs[1]].info = "absent"
    THEN SweepRecords(parent, d, Tail(jobs), found)
    ELSE LET j == jobs[1]
             r == ExtractExperimentInfo(PathOf(PathOf(BaseDir, parent), j), j,
                                        d.subs[j])
         IN  IF r.exc # NoExc THEN [exc |-> r.exc, exps |-> <<>>]
             ELSE SweepRecords(parent, d, Tail(jobs),
                      Append(found,
                             Put(Put(r.rec, "sweep_parent", Str(parent)),
                                 "job_number", Str(j))))

\* one pass of the loop over base_dir.iterdir()
EntryRecords(name, found) ==
    IF ~IsDir(name) THEN [exc |-> NoExc, exps |-> found]
    ELSE IF fs[name].info # "absent"
    THEN LET r == ExtractExperimentInfo(PathOf(BaseDir, name), name, fs[name])
         IN  IF r.exc # NoExc THEN [exc |-> r.exc, exps |-> <<>>]
             ELSE [exc |-> NoExc, exps |-> Append(found, r.rec)]
    ELSE SweepRecords(name, fs[name], Sorted(JobDirs(fs[name])), found)

\* the loop over base_dir.iterdir()
RECURSIVE ScanRoot(_, _)
ScanRoot(entries, found) ==
    IF entries = <<>> THEN [exc |-> NoExc, exps |-> found]
    ELSE LET r == EntryRecords(entries[1], found)
         IN  IF r.exc # NoExc THEN r ELSE ScanRoot(Tail(entries), r.exps)

(********************************* tables **********************************)
Range(s) == {s[i] : i \in 1..Len(s)}

RECURSIVE AddKeys(_, _)
AddKeys(cols, d) ==
    IF d = <<>> THEN cols
    ELSE AddKeys(IF d[1][1] \in Range(cols) THEN cols ELSE Append(cols, d[1][1]),
                 Tail(d))

\* the columns of pd.DataFrame(list of dicts): every key, by first appearance
RECURSIVE Columns(_)
Columns(exps) ==
    IF exps = <<>> THEN <<>>
    ELSE AddKeys(Columns(SubSeq(exps, 1, Len(exps) - 1)), exps[Len(exps)])

\* pd.DataFrame(experiments): a key a record lacks is NaN
DataFrame(exps) ==
    LET cols == Columns(exps)
    IN  [cols |-> cols,
         rows |-> [i \in 1..Len(exps) |->
                      [c \in Range(cols) |-> GetOr(exps[i], c, NaN)]],
         index |-> [i \in 1..Len(exps) |-> i]]

EmptyFrame == [cols |-> <<>>, rows |-> <<>>, index |-> <<>>]

HasCol(df, c) == c \in Range(df.cols)

\* df.iloc[positions]: the rows at these positions, with their index labels
Take(df, positions) ==
    [cols |-> df.cols,
     rows |-> [k \in 1..Len(positions) |-> df.rows[positions[k]]],
     index |-> [k \in 1..Len(positions) |-> df.index[positions[k]]]]

Positions(df) == [i \in 1..Len(df.rows) |-> i]

\* df[cols]: the listed columns only (KeyError is the caller's to raise)
Project(df, cols) ==
    [cols |-> cols,
     rows |-> [i \in 1..Len(df.rows) |-> [c \in Range(cols) |-> df.rows[i][c]]],
     index |-> df.index]

\* one cell as to_csv writes it
FormatCell(v) ==
    IF IsNaN(v) THEN <<>> ELSE IF IsNum(v) THEN FormatNat(v.n) ELSE v.s

NoFile == [exists |-> FALSE, header |-> <<>>, rows |-> <<>>]

\* a build that appends to the file it finds
AppendCsv(old, df) ==
    [exists |-> TRUE,
     header |-> df.cols,
     rows |-> old.rows \o
              [i \in 1..Len(df.rows) |->
                  [j \in 1..Len(df.cols) |-> FormatCell(df.rows[i][df.cols[j]])]]]

\* df.to_csv(path, index=False): the file is written anew
ToCsv(old, df) ==
    [exists |-> TRUE,
     header |-> df.cols,
     rows |-> [i \in 1..Len(df.rows) |->
                  [j \in 1..Len(df.cols) |-> FormatCell(df.rows[i][df.cols[j]])]]]

\* read_csv infers a column's type: numeric when every filled cell is a number
NumericColumn(file, j) ==
    \A i \in 1..Len(file.rows) :
        file.rows[i][j] = <<>> \/ IsNumericText(file.rows[i][j])

ParseCell(file, i, j) ==
    LET cell == file.rows[i][j]
    IN  IF cell = <<>> THEN NaN
        ELSE IF NumericColumn(file, j) THEN Num(ParseNat(cell))
        ELSE Str(cell)

\* pd.read_csv(base_dir / "experiment_index.csv")
ReadCsv(file) ==
    IF ~file.exists THEN [exc |-> "FileNotFoundError", df |-> EmptyFrame]
    ELSE IF file.header = <<>> THEN [exc |-> "EmptyDataError", df |-> EmptyFrame]
    ELSE [exc |-> NoExc,
          df |-> [cols |-> file.header,
                  rows |-> [i \in 1..Len(file.rows) |->
                               [c \in Range(file.header) |->
                                   ParseCell(file, i,
                                       CHOOSE j \in 1..Len(file.header) :
                                           file.header[j] = c)]],
                  index |-> [i \in 1..Len(file.rows) |-> i]]]

\* a build that writes what it has collected before the error surfaces
BuildIndexPartial ==
    LET r == ScanRoot(RootEntries(indexFile), <<>>)
        df == DataFrame(r.exps)
    IN  [exc |-> r.exc, df |-> df, file |-> ToCsv(indexFile, df)]

\* create_experiment_index: the error raised, the frame returned, the file left
BuildIndex ==
    LET r == ScanRoot(RootEntries(indexFile), <<>>)
        df == DataFrame(r.exps)
    IN  IF r.exc # NoExc
        THEN [exc |-> r.exc, df |-> EmptyFrame, file |-> indexFile]
        ELSE [exc |-> NoExc, df |-> df, file |-> ToCsv(indexFile, df)]

NoBuild ==
    [done |-> FALSE, root |-> NoSubs, exc |-> NoExc, df |-> EmptyFrame,
     file |-> NoFile]

(********************************* queries *********************************)
\* the dtype of a column: numeric unless a string is in it
NumericDtype(df, c) == \A i \in 1..Len(df.rows) : ~IsStr(df.rows[i][c])

Min(a, b) == IF a <= b THEN a ELSE b

\* the positions in `left`, largest value first, equal values by position
RECURSIVE Descending(_, _, _)
Descending(df, c, left) ==
    IF left = {} THEN <<>>
    ELSE LET m == CHOOSE i \in left : \A j \in left :
                      \/ df.rows[i][c].n > df.rows[j][c].n
                      \/ df.rows[i][c].n = df.rows[j][c].n /\ i <= j
         IN  <<m>> \o Descending(df, c, left \ {m})

\* the positions in `left`, smallest value first, equal values by position
RECURSIVE Ascending(_, _, _)
Ascending(df, c, left) ==
    IF left = {} THEN <<>>
    ELSE LET m == CHOOSE i \in left : \A j \in left :
                      \/ df.rows[i][c].n < df.rows[j][c].n
                      \/ df.rows[i][c].n = df.rows[j][c].n /\ i <= j
         IN  <<m>> \o Ascending(df, c, left \ {m})

Filled(df, c) == {i \in 1..Len(df.rows) : ~IsNaN(df.rows[i][c])}
Missing(df, c) == SelectSeq(Positions(df), LAMBDA i : IsNaN(df.rows[i][c]))

\* df.sort_values(c, ascending=False): missing values last
SortValuesDescending(df, c) ==
    Take(df, Descending(df, c, Filled(df, c)) \o Missing(df, c))

\* a selection that takes the smallest values
NSmallest(df, n, c) ==
    IF n <= 0 THEN Take(df, <<>>)
    ELSE LET order == Ascending(df, c, Filled(df, c)) \o Missing(df, c)
         IN  Take(df, SubSeq(order, 1, Min(n, Len(order))))

\* df.nlargest(n, c), keep='first': rows without a value fill up the end
NLargest(df, n, c) ==
    IF n <= 0 THEN Take(df, <<>>)
    ELSE LET order == Descending(df, c, Filled(df, c)) \o Missing(df, c)
         IN  Take(df, SubSeq(order, 1, Min(n, Len(order))))

(******************************** outcomes *********************************)
\* what an operation leaves behind: the exception it raised (NoExc: none), the
\* kind of report it printed, the table and the text it reported, the best run
\* it named, and for a command its arguments and exit status (-1: no process)
Outcome(op, arg, exc, kind, df, text) ==
    [op |-> op, arg |-> arg, n |-> 0, exc |-> exc, kind |-> kind,
     cols |-> df.cols, rows |-> df.rows, index |-> df.index, text |-> text,
     best |-> <<>>, argv |-> <<>>, exit |-> -1]

Raised(op, arg, exc) == Outcome(op, arg, exc, "", EmptyFrame, <<>>)

NoOutcome == Outcome("", <<>>, NoExc, "", EmptyFrame, <<>>)

\* what a call does: its outcome, the directories it leaves, the build it ran
Effect(o, root, ran, b) == [out |-> o, fs |-> root, ran |-> ran, build |-> b]
Pure(o) == Effect(o, fs, FALSE, [exc |-> NoExc, df |-> EmptyFrame, file |-> NoFile])
WithBuild(o, b) == Effect(o, fs, TRUE, b)

Apply(e) ==
    /\ out' = e.out
    /\ fs' = e.fs
    /\ indexFile' = IF e.ran THEN e.build.file ELSE indexFile
    /\ prev' = IF e.ran THEN last ELSE prev
    /\ last' = IF e.ran
               THEN [done |-> TRUE, root |-> fs, exc |-> e.build.exc,
                     df |-> e.build.df, file |-> e.build.file]
               ELSE last
    /\ UNCHANGED <<listing, shortcuts>>

(******************************* operations ********************************)
Available(df, cols) == SelectSeq(cols, LAMBDA c : HasCol(df, c))

\* a comparison of a column with a value: typed, and never true of NaN
ValEq(a, b) == ~IsNaN(a) /\ ~IsNaN(b) /\ DOMAIN a = DOMAIN b /\ a = b

\* organizer.create_experiment_index()
CreateExperimentIndexEff ==
    LET b == BuildIndex
    IN  WithBuild(Outcome("create_experiment_index", <<>>, b.exc,
                          IF b.exc = NoExc THEN "created" ELSE "", b.df, <<>>), b)

\* list_experiments()
ListExperimentsEff ==
    LET b == BuildIndex
        op == "list_experiments"
        shown == <<"folder_name", "model", "dataset", "lr", "best_accuracy",
                   "timestamp">>
    IN  WithBuild(
            IF b.exc # NoExc THEN Raised(op, <<>>, b.exc)
            ELSE IF Len(b.df.rows) = 0
            THEN Outcome(op, <<>>, NoExc, "none", EmptyFrame, <<>>)
            ELSE Outcome(op, <<>>, NoExc, "table",
                         Project(b.df, Available(b.df, shown)), <<>>),
            b)

\* find_best_experiments(metric, top_n)
FindBestEff(metric, n) ==
    LET b == BuildIndex
        op == "find_best_experiments"
        shown == <<"folder_name", "model", "dataset", metric>>
        res == IF b.exc # NoExc THEN Raised(op, metric, b.exc)
               ELSE IF ~HasCol(b.df, metric)
               THEN Outcome(op, metric, NoExc, "notfound", EmptyFrame, <<>>)
               ELSE IF ~NumericDtype(b.df, metric) THEN Raised(op, metric, "TypeError")
               ELSE IF \E c \in Range(shown) : ~HasCol(b.df, c)
               THEN Raised(op, metric, "KeyError")
               ELSE Outcome(op, metric, NoExc, "top",
                            Project(NLargest(b.df, n, metric), shown), <<>>)
    IN  WithBuild([res EXCEPT !.n = n], b)

\* Series.str.contains(pattern, case=False): a regular expression search; of
\* the special characters only "." (any character) is among those modelled
RegexSearch(pattern, text) ==
    \E start \in 0..(Len(text) - Len(pattern)) :
        \A i \in 1..Len(pattern) :
            pattern[i] = "." \/ Lower(pattern[i]) = Lower(text[start + i])

\* quick_cd(partial_name)
QuickCdEff(partial) ==
    LET b == BuildIndex
        op == "quick_cd"
        matches == Take(b.df, SelectSeq(Positions(b.df), LAMBDA i :
                        RegexSearch(partial, b.df.rows[i]["folder_name"].s)))
    IN  WithBuild(
            IF b.exc # NoExc THEN Raised(op, partial, b.exc)
            ELSE IF ~HasCol(b.df, "folder_name") THEN Raised(op, partial, "KeyError")
            ELSE IF Len(matches.rows) = 1
            THEN Outcome(op, partial, NoExc, "cd", matches,
                         <<"c", "d", " ">> \o matches.rows[1]["full_path"].s)
            ELSE IF Len(matches.rows) > 1
            THEN Outcome(op, partial, NoExc, "multiple",
                         Project(matches, <<"folder_name", "model", "dataset">>), <<>>)
            ELSE Outcome(op, partial, NoExc, "nomatch", EmptyFrame, <<>>),
            b)

\* the filters of find_experiments, one after the other
RECURSIVE Filtered(_, _)
Filtered(df, filters) ==
    IF filters = <<>> THEN df
    ELSE Filtered(
             IF HasCol(df, filters[1][1])
             THEN Take(df, SelectSeq(Positions(df), LAMBDA i :
                           ValEq(df.rows[i][filters[1][1]], filters[1][2])))
             ELSE df,
             Tail(filters))

\* organizer.find_experiments(**filters)
FindExperimentsEff(filters) ==
    LET r == ReadCsv(indexFile)
        op == "find_experiments"
        found == Filtered(r.df, filters)
        shown == <<"folder_name", "model", "dataset", "lr", "best_accuracy">>
                 \o (IF HasCol(found, "sweep_parent")
                     THEN <<"sweep_parent", "job_number">> ELSE <<>>)
    IN  Pure(IF r.exc # NoExc THEN Raised(op, filters, r.exc)
             ELSE Outcome(op, filters, NoExc, "found",
                          Project(found, Available(found, shown)), <<>>))

\* results.get('best_accuracy', 0) > 0.9
KeepThreshold == 90
HighPerforming(results) ==
    GetOr(ResultsDoc(results), "best_accuracy", Num(0)).n > KeepThreshold

\* the loop of cleanup_old_experiments over base_dir.iterdir()
RECURSIVE CleanupScan(_, _, _, _)
CleanupScan(keepDays, entries, root, removed) ==
    IF entries = <<>> THEN [exc |-> NoExc, fs |-> root, removed |-> removed]
    ELSE IF entries[1] \notin DOMAIN root
    THEN CleanupScan(keepDays, Tail(entries), root, removed)
    ELSE IF ~(root[entries[1]].age > keepDays)
    THEN CleanupScan(keepDays, Tail(entries), root, removed)
    ELSE IF root[entries[1]].results.st = "bad"
    THEN [exc |-> "JSONDecodeError", fs |-> root, removed |-> removed]
    ELSE IF root[entries[1]].results.st = "ok"
            /\ HighPerforming(root[entries[1]].results)
    THEN CleanupScan(keepDays, Tail(entries), root, removed)
    ELSE CleanupScan(keepDays, Tail(entries),
                     [n \in DOMAIN root \ {entries[1]} |-> root[n]], removed + 1)

\* organizer.cleanup_old_experiments(keep_days)
DefaultKeepDays == 30
CleanupEff(keepDays) ==
    LET r == CleanupScan(keepDays, RootEntries(indexFile), fs, 0)
        op == "cleanup_old_experiments"
        o == IF r.exc # NoExc THEN Raised(op, keepDays, r.exc)
             ELSE Outcome(op, keepDays, NoExc, "removed", EmptyFrame, <<>>)
    IN  Effect([o EXCEPT !.n = r.removed], r.fs, FALSE,
               [exc |-> NoExc, df |-> EmptyFrame, file |-> NoFile])

\* organizer.analyze_sweep(sweep_name)
AnalyzeSweepEff(name) ==
    LET r == ReadCsv(indexFile)
        op == "analyze_sweep"
        chosen == Take(r.df, SelectSeq(Positions(r.df), LAMBDA i :
                       ValEq(r.df.rows[i]["sweep_parent"], Str(name))))
        ranked == IF HasCol(chosen, "best_accuracy")
                  THEN SortValuesDescending(chosen, "best_accuracy")
                  ELSE chosen
        o == Outcome(op, name, NoExc, "analysis", ranked, <<>>)
    IN  Pure(IF r.exc # NoExc THEN Raised(op, name, r.exc)
             ELSE IF ~HasCol(r.df, "sweep_parent")
             THEN Outcome(op, name, NoExc, "nosweepdata", EmptyFrame, <<>>)
             ELSE IF Len(chosen.rows) = 0
             THEN Outcome(op, name, NoExc, "noresults", EmptyFrame, <<>>)
             ELSE IF HasCol(ranked, "best_accuracy")
             THEN [o EXCEPT !.best = <<ranked.rows[1]["job_number"],
                                       ranked.rows[1]["best_accuracy"],
                                       ranked.rows[1]["full_path"]>>]
             ELSE o)

\* Series.dropna().unique(): the values present, by first appearance
RECURSIVE Unique(_, _)
Unique(values, seen) ==
    IF values = <<>> THEN seen
    ELSE Unique(Tail(values),
                IF IsNaN(values[1]) \/ values[1] \in Range(seen)
                THEN seen ELSE Append(seen, values[1]))

\* organizer.list_sweeps(), up to its return
ListSweepsEff ==
    LET r == ReadCsv(indexFile)
        op == "list_sweeps"
        column == [i \in 1..Len(r.df.rows) |-> r.df.rows[i]["sweep_parent"]]
        sweeps == Unique(column, <<>>)
        counted == [cols |-> <<"sweep", "jobs">>,
                    rows |-> [k \in 1..Len(sweeps) |->
                                 [c \in {"sweep", "jobs"} |->
                                     IF c = "sweep" THEN sweeps[k]
                                     ELSE Num(Cardinality({i \in 1..Len(column) :
                                              ValEq(column[i], sweeps[k])}))]],
                    index |-> [k \in 1..Len(sweeps) |-> k]]
    IN  Pure(IF r.exc # NoExc THEN Raised(op, <<>>, r.exc)
             ELSE IF ~HasCol(r.df, "sweep_parent")
             THEN Outcome(op, <<>>, NoExc, "nosweepdata", EmptyFrame, <<>>)
             ELSE Outcome(op, <<>>, NoExc, "sweeps", counted, <<>>))

\* the paths that exist under base_dir
ExistingPaths(root) ==
    {PathOf(BaseDir, n) : n \in DOMAIN root}
    \cup UNION {{PathOf(PathOf(BaseDir, n), j) : j \in DOMAIN root[n].subs} :
                   n \in DOMAIN root}

\* the statements that follow list_sweeps' return (their def line is missing):
\* the links they would leave in base_dir/shortcuts, were they ever run
TopShortcuts == 5
ShortcutLinks(file, root) ==
    LET r == ReadCsv(file)
        top == IF r.exc = NoExc /\ HasCol(r.df, "best_accuracy")
               THEN NLargest(r.df, TopShortcuts, "best_accuracy")
               ELSE EmptyFrame
    IN  {[name |-> <<"t", "o", "p", "_">> \o FormatCell(top.rows[i]["model"])
                   \o <<"_">> \o FormatCell(top.rows[i]["dataset"])
                   \o <<"_">> \o FormatCell(top.rows[i]["best_accuracy"]),
          target |-> top.rows[i]["full_path"].s] :
            i \in {k \in 1..Len(top.rows) :
                      top.rows[k]["full_path"].s \in ExistingPaths(root)}}

\* the script run as a command: sys.argv[1:] decides
DefaultTopN == 5
MainEff(argv) ==
    LET ended(e) == [e EXCEPT !.out.argv = argv,
                              !.out.exit = IF e.out.exc = NoExc THEN 0 ELSE 1]
    IN  IF Len(argv) < 1
        THEN Pure([Outcome("main", <<>>, NoExc, "usage", EmptyFrame, <<>>)
                      EXCEPT !.argv = argv, !.exit = 1])
        ELSE IF argv[1] = "list" THEN ended(ListExperimentsEff)
        ELSE IF argv[1] = "find_best"
        THEN ended(FindBestEff("best_accuracy", DefaultTopN))
        ELSE IF argv[1] = "cd" /\ Len(argv) > 1 THEN ended(QuickCdEff(argv[2]))
        ELSE IF argv[1] = "cleanup" THEN ended(CleanupEff(DefaultKeepDays))
        ELSE IF argv[1] = "shortcuts"
        THEN ended(Pure(Raised("create_shortcuts", <<>>, "AttributeError")))
        ELSE IF argv[1] = "sweeps" THEN ended(ListSweepsEff)
        ELSE IF argv[1] = "analyze_sweep" /\ Len(argv) > 1
        THEN ended(AnalyzeSweepEff(argv[2]))
        ELSE Pure([Outcome("main", <<>>, NoExc, "unknown", EmptyFrame, <<>>)
                      EXCEPT !.argv = argv, !.exit = 0])

(********************************* actions *********************************)
\* organizer.create_experiment_index()
CreateExperimentIndex == \E e \in {CreateExperimentIndexEff} : Apply(e)

\* find_best_experiments(metric, top_n)
FindBestExperiments(metric, n) == \E e \in {FindBestEff(metric, n)} : Apply(e)

\* organizer.find_experiments(**filters)
FindExperiments(filters) == \E e \in {FindExperimentsEff(filters)} : Apply(e)

\* organizer.cleanup_old_experiments(keep_days)
CleanupOldExperiments(keepDays) == \E e \in {CleanupEff(keepDays)} : Apply(e)

\* python experiment_tracker.py argv...
Main(argv) == \E e \in {MainEff(argv)} : Apply(e)

\* train(): open("experiment_info.json", "w") empties the file before json.dump
\* fills it; a run stopped in between (or rerun in place) leaves malformed JSON
TrainInterrupted(name) ==
    /\ name \in DOMAIN fs
    /\ fs[name].info = "ok"
    /\ fs' = [fs EXCEPT ![name].info = "bad"]
    /\ out' = Raised("train", name, "KeyboardInterrupt")
    /\ UNCHANGED <<listing, indexFile, shortcuts, last, prev>>

(****************************** initial roots ******************************)
\* two orders a file system may list the names in
ListingA == <<SweepB, Job2, IndexName, ExpA, Job10, Logs, Job1, Sweep12, Job0>>
ListingB == <<Job0, Sweep12, Job1, Logs, Job10, ExpA, IndexName, Job2, SweepB>>
Listings == {ListingA, ListingB}

JobNames == <<Job10, Job2, Job1, Job0>>
JobPool == {JobNames[i] : i \in 1..MaxJobs}

\* ages in days: younger and older than the default keep_days
Young == {10}
Ages == {10, 40}

\* what a job directory may hold (results.json is read only after a well
\* formed experiment_info.json)
JobDocs ==
    {[info |-> "absent", results |-> NoDoc], [info |-> "bad", results |-> NoDoc]}
    \cup {[info |-> "ok", results |-> r] :
              r \in {NoDoc, BadDoc, OkDoc(50), OkDoc(95)}}

ScoredJobs ==
    {[info |-> "ok", results |-> OkDoc(50)], [info |-> "ok", results |-> OkDoc(95)]}

\* the subdirectories of a directory: jobs from the pool, and maybe logs/
SubsOver(pool, docs) ==
    LET jobs == UNION {[S -> docs] : S \in SUBSET pool}
    IN  jobs \cup {j @@ (Logs :> [info |-> "ok", results |-> OkDoc(95)]) : j \in jobs}

\* a directory written by one training run
RunDirs(ages, results) ==
    {[age |-> a, info |-> "ok", results |-> r, subs |-> NoSubs] :
        a \in ages, r \in results}

\* a directory whose training run was stopped while it wrote its summary
BrokenDirs(ages) ==
    {[age |-> a, info |-> "bad", results |-> NoDoc, subs |-> NoSubs] : a \in ages}

\* a directory without experiment_info.json: a sweep parent, or anything else
SweepDirs(ages, subs) ==
    {[age |-> a, info |-> "absent", results |-> NoDoc, subs |-> s] :
        a \in ages, s \in subs}

Slot(name, dirs) == {NoSubs} \cup {name :> d : d \in dirs}

Fresh(roots, listings) ==
    /\ fs \in roots
    /\ listing \in listings
    /\ indexFile = NoFile
    /\ shortcuts = {}
    /\ out = NoOutcome
    /\ last = NoBuild
    /\ prev = NoBuild

(************************ the index builder on its own *********************)
IndexRoots ==
    LET results == {NoDoc, BadDoc, OkDoc(50), OkDoc(95)}
        runs == RunDirs(Young, results) \cup BrokenDirs(Young)
    IN  {a @@ b : a \in Slot(ExpA, runs),
                  b \in Slot(SweepB, runs
                                     \cup SweepDirs(Young, SubsOver(JobPool, JobDocs)))}

InitIndex == Fresh(IndexRoots, Listings)

NextIndex ==
    \/ CreateExperimentIndex
    \/ \E name \in {ExpA, SweepB} : TrainInterrupted(name)

SpecIndex == InitIndex /\ [][NextIndex]_vars

(****************************** top-N on its own ***************************)
Metrics == {"best_accuracy", "lr", "model", "accuracy"}

TopNRoots ==
    LET results == {NoDoc, OkDoc(50), OkDoc(95)}
        jobs == UNION {[S -> ScoredJobs] : S \in SUBSET JobPool}
    IN  {a @@ b : a \in Slot(ExpA, RunDirs(Young, results)),
                  b \in Slot(SweepB, SweepDirs(Young, jobs))}

InitTopN == Fresh(TopNRoots, Listings)

NextTopN == \E metric \in Metrics, n \in 0..MaxTopN : FindBestExperiments(metric, n)

SpecTopN == InitTopN /\ [][NextTopN]_vars

(***************************** the whole program ***************************)
Queries == {<<"e", "x", "p">>, <<"P", ".">>, <<"j", "o", "b">>, <<"z", "z">>}

Argvs ==
    {<<>>, <<"list">>, <<"find_best">>, <<"cd">>, <<"cleanup">>, <<"shortcuts">>,
     <<"sweeps">>, <<"analyze_sweep">>, <<"bogus">>}
    \cup {<<"cd", q>> : q \in Queries}
    \cup {<<"analyze_sweep", name>> : name \in {SweepB, Sweep12}}

FilterSets ==
    {<< <<"sweep_parent", Str(Sweep12)>>, <<"best_accuracy", Num(95)>> >>,
     << <<"owner", Str(<<"z">>)>>, <<"model", Str(<<"r", "1", "8">>)>> >>}

Roots ==
    LET results == {BadDoc, OkDoc(90), OkDoc(95)}
        scored(a, b) == (Job0 :> [info |-> "ok", results |-> OkDoc(a)])
                        @@ (Job1 :> [info |-> "ok", results |-> OkDoc(b)])
        jobs == {scored(50, 95), scored(95, 50)}
    IN  {a @@ b : a \in Slot(ExpA, RunDirs(Ages, results)),
                  b \in Slot(SweepB, SweepDirs(Ages, jobs))
                        \cup Slot(Sweep12, SweepDirs(Ages, jobs))}

Init == Fresh(Roots, {ListingA})

Next ==
    \/ \E argv \in Argvs : Main(argv)
    \/ \E filters \in FilterSets : FindExperiments(filters)
    \/ \E keepDays \in {7} : CleanupOldExperiments(keepDays)

Spec == Init /\ [][Next]_vars

(********************************* claims **********************************)
\* the job_ subdirectories of a directory that hold experiment_info.json
JobsWithInfo(d) ==
    {n \in DOMAIN d.subs : StartsWith(n, JobPrefix) /\ d.subs[n].info # "absent"}

\* the rows of a frame tagged with a sweep parent
SweepRowsOf(df, p) ==
    {i \in 1..Len(df.rows) :
        HasCol(df, "sweep_parent") /\ df.rows[i]["sweep_parent"] = Str(p)}

\* C5: a completed build gives a sweep parent (a top-level directory without
\* experiment_info.json) one record per job_ subdirectory holding
\* experiment_info.json, tagged with the parent's and the job's name, and these
\* records are contiguous and in lexicographic order of the job names.
C5_SweepRecords ==
    (last.done /\ last.exc = NoExc) =>
        \A p \in DOMAIN last.root :
            last.root[p].info = "absent" =>
                LET J == JobsWithInfo(last.root[p])
                    I == SweepRowsOf(last.df, p)
                    job(i) == last.df.rows[i]["job_number"].s
                IN  /\ Cardinality(I) = Cardinality(J)
                    /\ {job(i) : i \in I} = J
                    /\ \A i \in I, j \in I :
                           i < j => /\ \A k \in i..j : k \in I
                                    /\ TextLess(job(i), job(j))

\* a sweep whose two jobs the file system lists out of order, beside a run
C5_Witness ==
    /\ last.done /\ last.exc = NoExc
    /\ listing = ListingA
    /\ ExpA \in DOMAIN last.root /\ SweepB \in DOMAIN last.root
    /\ last.root[SweepB].info = "absent"
    /\ JobsWithInfo(last.root[SweepB]) = {Job10, Job2}
    /\ Len(last.df.rows) = 3

\* C6: two runs of create_experiment_index over the same directories give the
\* same records and the same index file (the second run finds the file of the
\* first in base_dir).
C6_Idempotent ==
    (last.done /\ prev.done /\ last.root = prev.root) =>
        /\ last.exc = prev.exc
        /\ last.df = prev.df
        /\ last.file = prev.file
        /\ indexFile = prev.file

C6_Witness ==
    /\ last.done /\ prev.done /\ last.root = prev.root
    /\ last.exc = NoExc
    /\ prev.file.exists
    /\ Len(last.df.rows) >= 2

\* a document the build reads that is malformed JSON
MalformedDoc(d) == d.info = "bad" \/ (d.info = "ok" /\ d.results.st = "bad")

MalformedVisited(root) ==
    \E n \in DOMAIN root :
        \/ MalformedDoc(root[n])
        \/ /\ root[n].info = "absent"
           /\ \E j \in DOMAIN root[n].subs :
                  StartsWith(j, JobPrefix) /\ MalformedDoc(root[n].subs[j])

\* C10: a malformed document makes the build raise the parse error and leave
\* the index file as it was before; without one the build completes, whatever
\* documents are missing.
C10_MalformedAborts ==
    last.done =>
        /\ MalformedVisited(last.root) =>
               /\ last.exc = "JSONDecodeError"
               /\ last.file = prev.file
               /\ indexFile = prev.file
        /\ ~MalformedVisited(last.root) => last.exc = NoExc

\* an index written by one build survives the abort of the next
C10_Witness ==
    /\ last.done /\ last.exc = "JSONDecodeError"
    /\ prev.done /\ prev.exc = NoExc
    /\ Len(prev.file.rows) >= 1
    /\ indexFile = prev.file

\* the value a row is ranked by: a row without the metric ranks below all
Rank(v) == IF IsNaN(v) THEN -1 ELSE v.n

\* C7: find_best_experiments(metric, N) over a numeric metric column reports
\* min(N, number of records) records, largest metric first, equal metrics in
\* index order, none smaller than an unreported record; a metric that is no
\* column is reported as not found.
C7_TopN ==
    (out.op = "find_best_experiments" /\ last.exc = NoExc) =>
        IF ~HasCol(last.df, out.arg) THEN out.exc = NoExc /\ out.kind = "notfound"
        ELSE NumericDtype(last.df, out.arg) =>
            LET val(i) == Rank(last.df.rows[i][out.arg])
                k == Len(out.index)
            IN  /\ out.exc = NoExc /\ out.kind = "top"
                /\ k = Min(out.n, Len(last.df.rows))
                /\ Len(out.rows) = k
                /\ \A a \in 1..k :
                       /\ out.index[a] \in 1..Len(last.df.rows)
                       /\ out.rows[a][out.arg] = last.df.rows[out.index[a]][out.arg]
                       /\ out.rows[a]["folder_name"]
                              = last.df.rows[out.index[a]]["folder_name"]
                /\ \A a \in 1..k, b \in 1..k :
                       a < b => \/ val(out.index[a]) > val(out.index[b])
                                \/ /\ val(out.index[a]) = val(out.index[b])
                                   /\ out.index[a] < out.index[b]
                /\ \A a \in 1..k, u \in 1..Len(last.df.rows) :
                       u \notin Range(out.index) => val(out.index[a]) >= val(u)

\* C7 as stated, for every column of the index: whatever the metric column
\* holds, find_best_experiments(metric, N) reports min(N, number of records)
\* records and raises nothing.
C7_TopNAnyColumn ==
    (/\ out.op = "find_best_experiments" /\ last.exc = NoExc
     /\ HasCol(last.df, out.arg)) =>
        /\ out.exc = NoExc /\ out.kind = "top"
        /\ Len(out.index) = Min(out.n, Len(last.df.rows))

\* three records, two of them tied, and the top two asked for
C7_Witness ==
    /\ out.op = "find_best_experiments" /\ out.exc = NoExc /\ out.kind = "top"
    /\ out.arg = "best_accuracy" /\ out.n = 2
    /\ Len(last.df.rows) = 3
    /\ Len(out.index) = 2
    /\ out.rows[1]["best_accuracy"] = out.rows[2]["best_accuracy"]
    /\ out.rows[1]["best_accuracy"] = Num(95)
    /\ \E i \in 1..3 : last.df.rows[i]["best_accuracy"] = Num(50)

\* a results.json reporting best_accuracy >= 0.9
HighResults(d) == d.results.st = "ok" /\ d.results.acc >= KeepThreshold

\* C1: when cleanup_old_experiments returns, every experiment directory (top
\* level, or a job under a sweep parent) whose results.json reports
\* best_accuracy >= 0.9 still exists, however old it or its parent is.
C1_CleanupKeepsHighPerformers ==
    [][(out'.op = "cleanup_old_experiments" /\ out'.exc = NoExc) =>
          \A n \in DOMAIN fs :
              /\ HighResults(fs[n]) => n \in DOMAIN fs'
              /\ \A j \in DOMAIN fs[n].subs :
                     HighResults(fs[n].subs[j]) =>
                         n \in DOMAIN fs' /\ j \in DOMAIN fs'[n].subs]_vars

KnownCommands ==
    {"list", "find_best", "cd", "cleanup", "shortcuts", "sweeps", "analyze_sweep"}

BadInvocation(argv) ==
    \/ Len(argv) = 0
    \/ argv[1] \notin KnownCommands
    \/ argv[1] \in {"cd", "analyze_sweep"} /\ Len(argv) < 2

\* C2: a command line without a command, with an unknown command, or with cd
\* or analyze_sweep lacking its argument, prints the usage message and ends
\* with a non-zero exit status, and runs no operation.
C2_UsageOnBadInvocation ==
    (out.exit >= 0 /\ BadInvocation(out.argv)) =>
        out.op = "main" /\ out.kind = "usage" /\ out.exit # 0

\* C3: when the shortcuts command has completed, base_dir/shortcuts holds
\* exactly one link for each of the top 5 index records by best_accuracy whose
\* full_path exists: earlier links are gone, vanished targets get none.
C3_ShortcutsRegenerated ==
    (out.exit >= 0 /\ Len(out.argv) > 0 /\ out.argv[1] = "shortcuts") =>
        /\ out.exc = NoExc
        /\ shortcuts = ShortcutLinks(indexFile, fs)

\* C4: with no index file, or an index file of zero records, find_experiments,
\* list_sweeps and analyze_sweep raise nothing and report nothing found.
C4_QueriesTolerateMissingIndex ==
    (/\ out.op \in {"find_experiments", "list_sweeps", "analyze_sweep"}
     /\ (~indexFile.exists \/ Len(indexFile.rows) = 0)) =>
        out.exc = NoExc /\ Len(out.rows) = 0

\* `part` occurs in `text`, letter case aside
Contains(text, part) ==
    \E start \in 0..(Len(text) - Len(part)) :
        \A i \in 1..Len(part) : Lower(part[i]) = Lower(text[start + i])

\* C8: over the index it has just built, quick_cd answers by the number of
\* records whose folder_name contains the query, letter case aside: one gives
\* the cd command with that record's full_path, several give the list of them
\* all, none (also an index without records) gives the no-match report.
C8_QuickCd ==
    (out.op = "quick_cd" /\ last.exc = NoExc) =>
        LET M == {i \in 1..Len(last.df.rows) :
                     Contains(last.df.rows[i]["folder_name"].s, out.arg)}
        IN  /\ out.exc = NoExc
            /\ Cardinality(M) = 1 =>
                   /\ out.kind = "cd"
                   /\ \E i \in M : out.text = <<"c", "d", " ">>
                                              \o last.df.rows[i]["full_path"].s
            /\ Cardinality(M) > 1 => out.kind = "multiple" /\ Range(out.index) = M
            /\ Cardinality(M) = 0 => out.kind = "nomatch"

\* the root of the specification's example: expA, sweepB/job_0 at 0.5 and
\* sweepB/job_1 at 0.95
ExampleRoot(root) ==
    /\ DOMAIN root = {ExpA, SweepB}
    /\ root[ExpA].info = "ok" /\ root[ExpA].results.st = "ok"
    /\ root[SweepB].info = "absent"
    /\ DOMAIN root[SweepB].subs = {Job0, Job1}
    /\ root[SweepB].subs[Job0] = [info |-> "ok", results |-> OkDoc(50)]
    /\ root[SweepB].subs[Job1] = [info |-> "ok", results |-> OkDoc(95)]

\* C9: over a written index with records, analyze_sweep(name) selects exactly
\* the records whose sweep_parent is name and names as best one of them with
\* the largest best_accuracy (its job_number, accuracy and full_path); it
\* reports no results when no record has that sweep_parent and no sweep data
\* when the index has no sweep_parent column.  For the example root the index
\* has 3 rows and job_1 is named best.
C9_AnalyzeSweep ==
    (out.op = "analyze_sweep" /\ indexFile.exists /\ indexFile.header # <<>>) =>
        LET col(c) == CHOOSE j \in 1..Len(indexFile.header) : indexFile.header[j] = c
            cell(i, c) == indexFile.rows[i][col(c)]
            hasSweep == "sweep_parent" \in Range(indexFile.header)
            hasAcc == "best_accuracy" \in Range(indexFile.header)
            S == IF hasSweep
                 THEN {i \in 1..Len(indexFile.rows) : cell(i, "sweep_parent") = out.arg}
                 ELSE {}
            acc(i) == IF cell(i, "best_accuracy") = <<>> THEN -1
                      ELSE ParseNat(cell(i, "best_accuracy"))
        IN  /\ out.exc = NoExc
            /\ ~hasSweep => out.kind = "nosweepdata"
            /\ (hasSweep /\ S = {}) => out.kind = "noresults"
            /\ S # {} =>
                   /\ out.kind = "analysis"
                   /\ Range(out.index) = S
                   /\ (hasAcc /\ \E i \in S : acc(i) >= 0) =>
                          \E i \in S :
                              /\ \A k \in S : acc(i) >= acc(k)
                              /\ out.best = <<Str(cell(i, "job_number")),
                                              Num(acc(i)),
                                              Str(cell(i, "full_path"))>>
            /\ (/\ last.done /\ last.exc = NoExc /\ indexFile = last.file
                /\ ExampleRoot(last.root) /\ out.arg = SweepB) =>
                   /\ Len(indexFile.rows) = 3
                   /\ out.kind = "analysis"
                   /\ out.best[1] = Str(Job1) /\ out.best[2] = Num(95)


====
